---- MODULE Spec2Model ----
(***************************************************************************)
(* A model of the term algebra of tlspuffin: typed first-order terms,      *)
(* the TermEval payload overlay, lazy and concrete evaluation with payload *)
(* splicing, and the structural trace mutators.                            *)
(***************************************************************************)
EXTENDS Integers, Sequences, FiniteSets, TLC

VARIABLES
    term,        \* the TermEval under evaluation (the recipe)
    knowledge,   \* TraceContext: the knowledge store, in encounter order
    claims,      \* TraceContext: the claim list
    ops,         \* number of payload operations applied to `term` so far
    last_op,     \* the last payload operation: [op, path, payload]
    pc,          \* "idle" until evaluate has run on `term`, then "done"
    calls,       \* lookups and function calls made by evaluate_lazy, in order
    lazy,        \* what evaluate_lazy returned to evaluate
    splices,     \* one record per payload processed by replace_bitstrings
    result,      \* what evaluate returned
    trace,       \* the Trace handed to the mutators
    before,      \* the trace as it was when the last mutator was called
    mutation,    \* the last mutator call: [mutator, requested, result]
    mutations,   \* number of mutator calls so far
    DESERIALIZATION_SIGNATURE,  \* the process-wide OnceCell: None until set
    signature_calls, \* the calls made on the cell, with what each returned
    input,       \* the arguments a function of the library is called with
    output       \* None until the function has been called, then what it returned

trace_vars == <<trace, before, mutation, mutations>>

signature_vars == <<DESERIALIZATION_SIGNATURE, signature_calls>>

function_vars == <<input, output>>

vars == <<term, knowledge, claims, ops, last_op, pc, calls, lazy, splices, result,
          trace_vars, signature_vars, function_vars>>

\* Bound on the number of add_payloads / payload mutations applied to a term.
MaxOps == 2

\* Bound on the number of calls made on the deserialization signature.
MaxSignatureCalls == 4

\* Bound on the number of mutator calls applied to a trace.
MaxMutations == 2

(***************************************************************************)
(* Option and Result                                                       *)
(***************************************************************************)
None == <<>>
Some(x) == <<x>>
IsSome(o) == Len(o) = 1
IsNone(o) == Len(o) = 0

Ok(v) == [ok |-> TRUE, val |-> v]
Err(e) == [ok |-> FALSE, val |-> e]

Error_Term(msg) == [kind |-> "Term", detail |-> msg]
Error_Fn(e) == [kind |-> "Fn", detail |-> e]

(***************************************************************************)
(* Byte strings                                                            *)
(***************************************************************************)
RECURSIVE Concat(_)
Concat(ss) ==
    IF ss = <<>> THEN <<>> ELSE Head(ss) \o Concat(Tail(ss))

\* haystack[i .. i + n) with i counted from 0, as a Rust slice
Slice(s, i, n) == SubSeq(s, i + 1, i + n)

(***************************************************************************)
(* Shapes, functions and the signature                                     *)
(***************************************************************************)
Shape(name, argument_types, return_type) ==
    [name |-> name, argument_types |-> argument_types, return_type |-> return_type]

SIGNATURE_functions ==
    << Shape("fn_finished", <<>>, "HandshakeMessage"),
       Shape("fn_client_key_exchange", <<>>, "HandshakeMessage"),
       Shape("fn_client_extensions_new", <<>>, "ClientExtensions"),
       Shape("fn_client_extensions_append",
             <<"ClientExtensions", "ClientExtension">>, "ClientExtensions"),
       Shape("fn_signature_algorithm_extension", <<>>, "ClientExtension"),
       Shape("fn_ec_point_formats_extension", <<>>, "ClientExtension"),
       Shape("fn_empty_bytes_vec", <<>>, "Vec<u8>"),
       Shape("fn_encrypt12", <<"HandshakeMessage", "u32">>, "Encrypted"),
       Shape("fn_seq_0", <<>>, "u32"),
       Shape("fn_seq_1", <<>>, "u32") >>

shape_of(name) ==
    LET i == CHOOSE i \in DOMAIN SIGNATURE_functions :
                 SIGNATURE_functions[i].name = name
    IN  SIGNATURE_functions[i]

\* A Function pairs a shape with its callable (named by the native function).
new_function(name) == [shape |-> shape_of(name), dynamic_fn |-> name]

Value(typ, data) == [typ |-> typ, data |-> data]

\* The native functions behind the signature.
native(name, args) ==
    CASE name = "fn_finished" -> Value("HandshakeMessage", <<20>>)
      [] name = "fn_client_key_exchange" -> Value("HandshakeMessage", <<16>>)
      [] name = "fn_client_extensions_new" -> Value("ClientExtensions", <<>>)
      [] name = "fn_client_extensions_append" ->
             Value("ClientExtensions", args[1].data \o args[2].data)
      [] name = "fn_signature_algorithm_extension" -> Value("ClientExtension", <<13>>)
      [] name = "fn_ec_point_formats_extension" -> Value("ClientExtension", <<11>>)
      [] name = "fn_empty_bytes_vec" -> Value("Vec<u8>", <<>>)
      [] name = "fn_encrypt12" -> Value("Encrypted", args[1].data \o args[2].data)
      [] name = "fn_seq_0" -> Value("u32", <<0>>)
      [] name = "fn_seq_1" -> Value("u32", <<1>>)

\* The call shim of a registered function: arity check, downcast of each
\* argument, then the native call.
dynamic_fn(name, args) ==
    LET argument_types == shape_of(name).argument_types IN
    IF Len(args) # Len(argument_types) THEN Err("WrongArity")
    ELSE IF \E i \in DOMAIN args : args[i].typ # argument_types[i]
         THEN Err("WrongType")
         ELSE Ok(native(name, args))

\* Big-endian bytes of a 32-bit integer.
u32_bytes(n) ==
    << (n \div 16777216) % 256, (n \div 65536) % 256, (n \div 256) % 256, n % 256 >>

\* A handshake message: its type byte and a 24-bit length.
handshake_bytes(m) == << m, 0, 0, 0 >>

\* An extension: its 16-bit extension type.
extension_bytes(e) == << e \div 256, e % 256 >>

\* PB::any_get_encoding: the bytes of an evaluated value, by its type.
any_get_encoding(v) ==
    CASE v.typ = "u32" -> u32_bytes(v.data[1])
      [] v.typ = "HandshakeMessage" -> handshake_bytes(v.data[1])
      [] v.typ = "ClientExtension" -> extension_bytes(v.data[1])
      [] v.typ = "ClientExtensions" ->
             Concat([i \in DOMAIN v.data |-> extension_bytes(v.data[i])])
      [] v.typ = "Encrypted" -> handshake_bytes(v.data[1]) \o u32_bytes(v.data[2])
      [] v.typ = "Vec<u8>" -> v.data

(***************************************************************************)
(* Terms                                                                   *)
(***************************************************************************)
AnyMatcher == "AnyMatcher"

Query(agent_name, matcher, counter) ==
    [agent_name |-> agent_name, matcher |-> matcher, counter |-> counter]

new_var(typ, agent_name, matcher, counter) ==
    [typ |-> typ, query |-> Query(agent_name, matcher, counter)]

Variable(v) == [tag |-> "Variable", variable |-> v]
Application(func, subterms) ==
    [tag |-> "Application", func |-> func, subterms |-> subterms]

Payloads(payload_0, payload) == [payload_0 |-> payload_0, payload |-> payload]

TermEval(t, payloads) == [term |-> t, payloads |-> payloads]

\* impl From<Term> for TermEval
From(t) == TermEval(t, None)

\* term!{ f(args) } and term!{ (agent, counter)/typ }
App(name, subterms) == From(Application(new_function(name), subterms))
Var(typ, agent_name) == From(Variable(new_var(typ, agent_name, None, 0)))

Subterms(te) ==
    IF te.term.tag = "Application" THEN te.term.subterms ELSE <<>>

\* A node is addressed by the child indices on the way from the root.
RECURSIVE Paths(_)
Paths(te) ==
    {<<>>} \cup UNION { { <<i>> \o p : p \in Paths(Subterms(te)[i]) } :
                        i \in DOMAIN Subterms(te) }

RECURSIVE SubtermAt(_, _)
SubtermAt(te, path) ==
    IF path = <<>> THEN te ELSE SubtermAt(Subterms(te)[Head(path)], Tail(path))

RECURSIVE ReplaceAt(_, _, _)
ReplaceAt(te, path, new) ==
    IF path = <<>> THEN new
    ELSE [te EXCEPT !.term.subterms[Head(path)] =
                        ReplaceAt(@, Tail(path), new)]

IsPrefix(p, q) == Len(p) <= Len(q) /\ SubSeq(q, 1, Len(p)) = p
IsStrictPrefix(p, q) == Len(p) < Len(q) /\ IsPrefix(p, q)

(***************************************************************************)
(* Size and iteration                                                      *)
(***************************************************************************)
SIZE_LEAF == 1

RECURSIVE Sum(_)
Sum(ns) == IF ns = <<>> THEN 0 ELSE Head(ns) + Sum(Tail(ns))

\* TermEval::is_symbolic
is_symbolic(self) == IsNone(self.payloads)

\* Term::is_leaf
Term_is_leaf(t) ==
    IF t.tag = "Variable" THEN TRUE ELSE t.subterms = <<>>

\* TermEval::is_leaf
TermEval_is_leaf(self) ==
    IF is_symbolic(self) THEN Term_is_leaf(self.term) ELSE TRUE

RECURSIVE Term_size(_)
RECURSIVE TermEval_size(_)

\* A size that counts the sub-terms below a payload.
TermEval_size_symbolic(self) == Term_size(self.term)

\* TermEval::size
TermEval_size(self) ==
    IF TermEval_is_leaf(self) THEN SIZE_LEAF ELSE Term_size(self.term)

\* Term::size
Term_size(t) ==
    IF t.tag = "Variable" THEN SIZE_LEAF
    ELSE Sum([i \in DOMAIN t.subterms |-> TermEval_size(t.subterms[i])]) + 1

\* One item of an iteration: the node yielded and where it is in the tree.
Yielded(node, at) == [node |-> node, at |-> at]

RECURSIVE append(_, _, _)
RECURSIVE append_subterms(_, _, _, _)
RECURSIVE append_eval(_, _, _)
RECURSIVE append_eval_subterms(_, _, _, _)

\* `for subterm in subterms { append(&subterm.term, v) }`, from subterm i on
append_subterms(subterms, i, at, v) ==
    IF i > Len(subterms) THEN v
    ELSE append_subterms(subterms, i + 1, at,
                         append(subterms[i].term, Append(at, i), v))

\* append: the Terms below `term`, then `term`, pushed onto v
append(t, at, v) ==
    LET below == IF t.tag = "Variable" THEN v
                 ELSE append_subterms(t.subterms, 1, at, v)
    IN  Append(below, Yielded(t, at))

\* `for subterm in subterms { append_eval(subterm, v) }`, from subterm i on
append_eval_subterms(subterms, i, at, v) ==
    IF i > Len(subterms) THEN v
    ELSE append_eval_subterms(subterms, i + 1, at,
                              append_eval(subterms[i], Append(at, i), v))

\* An iteration that yields a node before the nodes below it.
append_eval_node_first(term_eval, at, v) ==
    LET pushed == Append(v, Yielded(term_eval, at)) IN
    IF term_eval.term.tag = "Variable" THEN pushed
    ELSE append_eval_subterms(term_eval.term.subterms, 1, at, pushed)

\* append_eval: the TermEvals below `term_eval`, then `term_eval`, pushed onto v
append_eval(term_eval, at, v) ==
    LET below == IF term_eval.term.tag = "Variable" THEN v
                 ELSE append_eval_subterms(term_eval.term.subterms, 1, at, v)
    IN  Append(below, Yielded(term_eval, at))

\* IntoIterator for &Term
Term_into_iter(t) == append(t, <<>>, <<>>)

\* IntoIterator for &TermEval
TermEval_into_iter(self) == append_eval(self, <<>>, <<>>)

(***************************************************************************)
(* Matchers and the trace context                                          *)
(***************************************************************************)
\* impl Matcher for AnyMatcher
AnyMatcher_matches(self, matcher) == TRUE

\* Matchers of a protocol: the kind of message a knowledge item came from.
Handshake == "Handshake"
Alert == "Alert"

\* T::matches: AnyMatcher, or a protocol matcher comparing message kinds
Matcher_matches(self, matcher) ==
    IF self = AnyMatcher THEN AnyMatcher_matches(self, matcher)
    ELSE self = matcher

\* A matching of options that lets a knowledge item without matcher answer any
\* query.
Option_matches_lenient(self, matcher) ==
    CASE IsSome(self) /\ IsSome(matcher) -> Matcher_matches(self[1], matcher[1])
      [] OTHER -> TRUE

\* impl Matcher for Option<T>: self is the knowledge's matcher, matcher the query's
Option_matches(self, matcher) ==
    CASE IsSome(self) /\ IsSome(matcher) -> Matcher_matches(self[1], matcher[1])
      [] IsSome(self) /\ IsNone(matcher) -> TRUE
      [] IsNone(self) /\ IsNone(matcher) -> TRUE
      [] IsNone(self) /\ IsSome(matcher) -> FALSE

Knowledge(agent_name, matcher, data) ==
    [agent_name |-> agent_name, matcher |-> matcher, data |-> data]

Claim(agent_name, data) == [agent_name |-> agent_name, data |-> data]

Context(k, c) == [knowledge |-> k, claims |-> c]

\* KnowledgeStore lookup: the counter-th item of the requested type whose source
\* and matcher match the query.
find_variable(context, typ, query) ==
    LET fits(k) == /\ k.agent_name = query.agent_name
                   /\ Option_matches(k.matcher, query.matcher)
                   /\ k.data.typ = typ
        found == SelectSeq(context.knowledge, fits)
    IN  IF Len(found) > query.counter
        THEN Some(found[query.counter + 1].data)
        ELSE None

\* Claim list lookup, keyed on agent and type.
find_claim(context, agent_name, typ) ==
    LET fits(c) == c.agent_name = agent_name /\ c.data.typ = typ
        found == SelectSeq(context.claims, fits)
    IN  IF found = <<>> THEN None ELSE Some(Head(found).data)

(***************************************************************************)
(* Lazy evaluation.  Every evaluation returns its result together with the *)
(* lookups and function calls it made, in the order it made them; `at` is  *)
(* the path of the node being evaluated.                                   *)
(***************************************************************************)
Call(op, at) == [op |-> op, at |-> at]

Evaluated(res, made) == [res |-> res, calls |-> made]

RECURSIVE TermEval_evaluate_lazy(_, _, _)
RECURSIVE Term_evaluate_lazy(_, _, _)
RECURSIVE evaluate_lazy_application(_, _, _, _)
RECURSIVE evaluate_lazy_args(_, _, _, _, _, _)

\* A lookup that asks the claim list before the knowledge store.
evaluate_lazy_variable_claims_first(variable, context, at) ==
    LET claim == find_claim(context, variable.query.agent_name, variable.typ) IN
    IF IsSome(claim)
    THEN Evaluated(Ok(claim[1]), << Call("find_claim", at) >>)
    ELSE LET data == find_variable(context, variable.typ, variable.query) IN
         Evaluated(IF IsSome(data)
                   THEN Ok(data[1])
                   ELSE Err(Error_Term("Unable to find variable")),
                   << Call("find_claim", at), Call("find_variable", at) >>)

\* Term::Variable arm of Term::evaluate_lazy
evaluate_lazy_variable(variable, context, at) ==
    LET data == find_variable(context, variable.typ, variable.query) IN
    IF IsSome(data)
    THEN Evaluated(Ok(data[1]), << Call("find_variable", at) >>)
    ELSE LET claim == find_claim(context, variable.query.agent_name, variable.typ) IN
         Evaluated(IF IsSome(claim)
                   THEN Ok(claim[1])
                   ELSE Err(Error_Term("Unable to find variable")),
                   << Call("find_variable", at), Call("find_claim", at) >>)

\* An argument loop that evaluates every argument before it reports the first
\* error.
RECURSIVE evaluate_lazy_args_all(_, _, _, _, _, _)
evaluate_lazy_args_all(args, i, context, at, dynamic_args, made) ==
    IF i > Len(args) THEN Evaluated(Ok(dynamic_args), made)
    ELSE LET e == TermEval_evaluate_lazy(args[i], context, Append(at, i))
             rest == evaluate_lazy_args_all(args, i + 1, context, at,
                         Append(dynamic_args, e.res.val), made \o e.calls)
         IN  IF e.res.ok THEN rest ELSE Evaluated(e.res, rest.calls)

\* `for term in args` of the Term::Application arm: arguments i.. are still to
\* evaluate, dynamic_args holds the results so far.
evaluate_lazy_args(args, i, context, at, dynamic_args, made) ==
    IF i > Len(args) THEN Evaluated(Ok(dynamic_args), made)
    ELSE LET e == TermEval_evaluate_lazy(args[i], context, Append(at, i)) IN
         IF e.res.ok
         THEN evaluate_lazy_args(args, i + 1, context, at,
                                 Append(dynamic_args, e.res.val), made \o e.calls)
         ELSE Evaluated(e.res, made \o e.calls)

\* An Application arm that reports a failure of the function as Error::Term.
evaluate_lazy_application_unlifted(func, args, context, at) ==
    LET a == evaluate_lazy_args(args, 1, context, at, <<>>, <<>>) IN
    IF ~a.res.ok THEN a
    ELSE LET r == dynamic_fn(func.dynamic_fn, a.res.val) IN
         Evaluated(IF r.ok THEN r ELSE Err(Error_Term(r.val)),
                   Append(a.calls, Call("dynamic_fn", at)))

\* Term::Application arm of Term::evaluate_lazy
evaluate_lazy_application(func, args, context, at) ==
    LET a == evaluate_lazy_args(args, 1, context, at, <<>>, <<>>) IN
    IF ~a.res.ok THEN a
    ELSE LET r == dynamic_fn(func.dynamic_fn, a.res.val) IN
         Evaluated(IF r.ok THEN r ELSE Err(Error_Fn(r.val)),
                   Append(a.calls, Call("dynamic_fn", at)))

Term_evaluate_lazy(t, context, at) ==
    IF t.tag = "Variable"
    THEN evaluate_lazy_variable(t.variable, context, at)
    ELSE evaluate_lazy_application(t.func, t.subterms, context, at)

\* An evaluation that refuses a node that is no longer symbolic.
TermEval_evaluate_lazy_symbolic_only(self, context, at) ==
    IF IsSome(self.payloads)
    THEN Evaluated(Err(Error_Term("BITSTRING_")), <<>>)
    ELSE Term_evaluate_lazy(self.term, context, at)

TermEval_evaluate_lazy(self, context, at) ==
    Term_evaluate_lazy(self.term, context, at)

\* TermType::evaluate_symbolic
evaluate_symbolic(self, context) ==
    LET e == TermEval_evaluate_lazy(self, context, <<>>) IN
    [ res |-> IF e.res.ok THEN Ok(any_get_encoding(e.res.val)) ELSE e.res,
      calls |-> e.calls, lazy |-> e.res ]

(***************************************************************************)
(* The payload overlay                                                     *)
(***************************************************************************)
RECURSIVE erase_payloads_subterms(_, _)
erase_payloads_subterms(self, is_subterm) ==
    IF self.term.tag = "Variable" THEN self
    ELSE TermEval(
             [self.term EXCEPT !.subterms =
                 [i \in DOMAIN @ |-> erase_payloads_subterms(@[i], TRUE)]],
             IF is_subterm THEN None ELSE self.payloads)

add_payloads(self, payload) ==
    erase_payloads_subterms(
        [self EXCEPT !.payloads = Some(Payloads(payload, payload))], FALSE)

\* Bit-level mutation rewrites the `payload` field of an installed overlay.
set_payload(self, bytes) ==
    [self EXCEPT !.payloads = Some(Payloads(@[1].payload_0, bytes))]

RECURSIVE all_payloads(_)

\* A collection that pushes the payload of a node before those below it.
all_payloads_top_down(self) ==
    (IF IsSome(self.payloads) THEN << self.payloads[1] >> ELSE <<>>)
        \o Concat([i \in DOMAIN Subterms(self) |-> all_payloads(Subterms(self)[i])])

\* TermEval::all_payloads: `rec` pushes the payloads below a node, child by
\* child, and then the node's own
all_payloads(self) ==
    Concat([i \in DOMAIN Subterms(self) |-> all_payloads(Subterms(self)[i])])
        \o (IF IsSome(self.payloads) THEN << self.payloads[1] >> ELSE <<>>)

(***************************************************************************)
(* Concrete evaluation: splicing the payloads into the symbolic encoding   *)
(***************************************************************************)
\* A loop that stops one position early: `0..haystack.len() - needle.len()`.
RECURSIVE search_from_exclusive(_, _, _)
search_from_exclusive(haystack, needle, i) ==
    IF i >= Len(haystack) - Len(needle) THEN None
    ELSE IF Slice(haystack, i, Len(needle)) = needle THEN Some(i)
         ELSE search_from_exclusive(haystack, needle, i + 1)

\* `for i in 0..haystack.len() - needle.len() + 1`, from position i on
RECURSIVE search_from(_, _, _)
search_from(haystack, needle, i) ==
    IF i >= Len(haystack) - Len(needle) + 1 THEN None
    ELSE IF Slice(haystack, i, Len(needle)) = needle THEN Some(i)
         ELSE search_from(haystack, needle, i + 1)

\* A search that reports the last occurrence instead of the first.
search_sub_vec_last(haystack, needle) ==
    LET hits == { i \in 0 .. (Len(haystack) - Len(needle)) :
                      Slice(haystack, i, Len(needle)) = needle }
    IN  IF hits = {} THEN None
        ELSE Some(CHOOSE i \in hits : \A j \in hits : j <= i)

search_sub_vec(haystack, needle) ==
    IF Len(haystack) < Len(needle) THEN None
    ELSE search_from(haystack, needle, 0)

\* A splice that inserts the new bytes in front of the range and removes
\* nothing.
splice_inserting(v, start, end, new) ==
    SubSeq(v, 1, start) \o new \o SubSeq(v, start + 1, Len(v))

\* Vec::splice(start .. end, new)
splice(v, start, end, new) ==
    SubSeq(v, 1, start) \o new \o SubSeq(v, end + 1, Len(v))

\* One iteration of the loop of replace_bitstrings.  The record keeps what the
\* iteration saw and did: `found` is start_find, `twice` is start_find_2.
replace_payload(to_replace, payload) ==
    LET old_b == payload.payload_0
        new_b == payload.payload
        start_find == search_sub_vec(to_replace, old_b)
        spliced == splice(to_replace, start_find[1], start_find[1] + Len(old_b), new_b)
    IN  [ old_b |-> old_b, new_b |-> new_b, before |-> to_replace,
          found |-> start_find,
          after |-> IF IsSome(start_find) THEN spliced ELSE to_replace,
          twice |-> IF IsSome(start_find)
                    THEN search_sub_vec(
                             SubSeq(spliced, start_find[1] + Len(new_b) + 1, Len(spliced)),
                             old_b)
                    ELSE None ]

\* A loop that gives up at the first payload whose payload_0 is not found.
RECURSIVE replace_bitstrings_loop_stop(_, _, _)
replace_bitstrings_loop_stop(to_replace, payloads, done) ==
    IF payloads = <<>> THEN [to_replace |-> to_replace, splices |-> done]
    ELSE LET step == replace_payload(to_replace, Head(payloads)) IN
         IF IsNone(step.found)
         THEN [to_replace |-> to_replace, splices |-> Append(done, step)]
         ELSE replace_bitstrings_loop_stop(step.after, Tail(payloads),
                                           Append(done, step))

\* `for payload in term.all_payloads()`: the iterations done so far are in `done`.
RECURSIVE replace_bitstrings_loop(_, _, _)
replace_bitstrings_loop(to_replace, payloads, done) ==
    IF payloads = <<>> THEN [to_replace |-> to_replace, splices |-> done]
    ELSE LET step == replace_payload(to_replace, Head(payloads)) IN
         replace_bitstrings_loop(step.after, Tail(payloads), Append(done, step))

replace_bitstrings(to_replace, self) ==
    replace_bitstrings_loop(to_replace, all_payloads(self), <<>>)

\* TermEval::evaluate
evaluate(self, context) ==
    LET symbolic == evaluate_symbolic(self, context) IN
    IF ~symbolic.res.ok
    THEN [res |-> symbolic.res, calls |-> symbolic.calls,
          lazy |-> symbolic.lazy, splices |-> <<>>]
    ELSE LET replaced == replace_bitstrings(symbolic.res.val, self) IN
         [res |-> Ok(replaced.to_replace), calls |-> symbolic.calls,
          lazy |-> symbolic.lazy, splices |-> replaced.splices]

(***************************************************************************)
(* The terms and contexts the model starts from                            *)
(***************************************************************************)
\* fn_encrypt12(fn_finished, fn_seq_0), the last recipe of setup_simple_trace
encrypt12_term ==
    App("fn_encrypt12", << App("fn_finished", <<>>), App("fn_seq_0", <<>>) >>)

\* (agent 0, 0)/u32
u32_variable_term == Var("u32", 0)

encrypt12_of_variable_message ==
    App("fn_encrypt12", << Var("HandshakeMessage", 0), App("fn_seq_0", <<>>) >>)

encrypt12_of_variable_seq ==
    App("fn_encrypt12", << App("fn_finished", <<>>), Var("u32", 0) >>)

\* the same extension appended twice
extensions_term ==
    App("fn_client_extensions_append",
        << App("fn_client_extensions_append",
               << App("fn_client_extensions_new", <<>>),
                  App("fn_signature_algorithm_extension", <<>>) >>),
           App("fn_signature_algorithm_extension", <<>>) >>)

\* terms whose argument lists do not fit the shape of their function, as in
\* test_compilation
missing_argument_term == App("fn_encrypt12", << App("fn_finished", <<>>) >>)
extra_argument_term == App("fn_seq_0", << App("fn_seq_1", <<>>) >>)
wrong_type_term ==
    App("fn_encrypt12", << App("fn_seq_0", <<>>), App("fn_seq_0", <<>>) >>)

ClosedTerms ==
    { encrypt12_term, extensions_term, missing_argument_term,
      extra_argument_term, wrong_type_term }

\* a variable whose query asks for knowledge from a handshake message
handshake_variable_term == From(Variable(new_var("u32", 0, Some(Handshake), 0)))

OpenTerms ==
    { u32_variable_term, encrypt12_of_variable_message, encrypt12_of_variable_seq,
      handshake_variable_term }

empty_context == Context(<<>>, <<>>)

knowing_context ==
    Context(<< Knowledge(0, None, Value("HandshakeMessage", <<16>>)),
               Knowledge(0, Some(AnyMatcher), Value("u32", <<1>>)) >>,
            << Claim(0, Value("u32", <<0>>)) >>)

claiming_context ==
    Context(<< Knowledge(1, None, Value("u32", <<1>>)) >>,
            << Claim(1, Value("u32", <<1>>)), Claim(0, Value("u32", <<0>>)) >>)

\* knowledge without matcher, from an alert and from a handshake message
matching_context ==
    Context(<< Knowledge(0, None, Value("u32", <<2>>)),
               Knowledge(0, Some(Alert), Value("u32", <<3>>)),
               Knowledge(0, Some(Handshake), Value("u32", <<1>>)) >>,
            <<>>)

Contexts == { empty_context, knowing_context, claiming_context, matching_context }

context == Context(knowledge, claims)

\* Replacement bytes a bit-level mutation may write into a payload.
MutatedPayloads == { << 222, 173, 190, 239 >>, <<>>, << 0 >>, << 0, 0, 0, 1 >> }

\* Bytes add_payloads may be given for a node: its symbolic encoding when it has
\* one, or bytes that are not an encoding of anything in the term.
InstallablePayloads(node) ==
    LET symbolic == evaluate_symbolic(node, context) IN
    (IF symbolic.res.ok THEN { symbolic.res.val } ELSE {}) \cup { << 255 >> }

(***************************************************************************)
(* The state machine of one recipe: payload operations, then evaluation    *)
(***************************************************************************)
NoOp == [op |-> "none", path |-> <<>>, payload |-> <<>>]

\* Trace { prior_traces, descriptors, steps }
Trace(prior_traces, descriptors, steps) ==
    [prior_traces |-> prior_traces, descriptors |-> descriptors, steps |-> steps]

\* Step { agent, action }, with Action::Input(recipe) or Action::Output
Step(agent, action) == [agent |-> agent, action |-> action]
Input(recipe) == [tag |-> "Input", recipe |-> recipe]
Output == [tag |-> "Output"]

empty_trace == Trace(<<>>, <<>>, <<>>)

NoMutation == [mutator |-> "none", requested |-> None, result |-> "none"]

Init ==
    /\ DESERIALIZATION_SIGNATURE = None
    /\ signature_calls = <<>>
    /\ input = <<>>
    /\ output = None
    /\ trace = empty_trace
    /\ before = empty_trace
    /\ mutation = NoMutation
    /\ mutations = 0
    /\ \E t \in ClosedTerms \cup OpenTerms, c \in Contexts :
           /\ term = t
           /\ (t \in ClosedTerms => c = empty_context)
           /\ (t = handshake_variable_term => c \in {empty_context, matching_context})
           /\ knowledge = c.knowledge
           /\ claims = c.claims
    /\ ops = 0
    /\ last_op = NoOp
    /\ pc = "idle"
    /\ calls = <<>>
    /\ lazy = None
    /\ splices = <<>>
    /\ result = None

\* node.add_payloads(payload) on the node of the recipe at `path`
AddPayloads(path, payload) ==
    /\ pc = "idle"
    /\ ops < MaxOps
    /\ term' = ReplaceAt(term, path, add_payloads(SubtermAt(term, path), payload))
    /\ ops' = ops + 1
    /\ last_op' = [op |-> "add_payloads", path |-> path, payload |-> payload]
    /\ UNCHANGED <<knowledge, claims, pc, calls, lazy, splices, result, trace_vars, signature_vars,
                   function_vars>>

\* a bit-level mutation of the payload installed at `path`
MutatePayload(path, bytes) ==
    /\ pc = "idle"
    /\ ops < MaxOps
    /\ IsSome(SubtermAt(term, path).payloads)
    /\ term' = ReplaceAt(term, path, set_payload(SubtermAt(term, path), bytes))
    /\ ops' = ops + 1
    /\ last_op' = [op |-> "set_payload", path |-> path, payload |-> bytes]
    /\ UNCHANGED <<knowledge, claims, pc, calls, lazy, splices, result, trace_vars, signature_vars,
                   function_vars>>

\* term.evaluate(context)
Evaluate ==
    /\ pc = "idle"
    /\ LET e == evaluate(term, context) IN
           /\ result' = Some(e.res)
           /\ calls' = e.calls
           /\ lazy' = Some(e.lazy)
           /\ splices' = e.splices
    /\ pc' = "done"
    /\ UNCHANGED <<term, knowledge, claims, ops, last_op, trace_vars, signature_vars,
                   function_vars>>

Next ==
    \/ \E path \in Paths(term) :
           \E payload \in InstallablePayloads(SubtermAt(term, path)) :
               AddPayloads(path, payload)
    \/ \E path \in Paths(term) : \E bytes \in MutatedPayloads :
           MutatePayload(path, bytes)
    \/ Evaluate

Spec == Init /\ [][Next]_vars

(***************************************************************************)
(* The state machine of a recipe with payloads at two sibling sub-terms:   *)
(* bit-level mutations of the two payloads, then evaluation                *)
(***************************************************************************)
\* The recipe after add_payloads, with its symbolic encoding, on the node at
\* `path`.
installed(te, c, path) ==
    ReplaceAt(te, path,
              add_payloads(SubtermAt(te, path),
                           evaluate_symbolic(SubtermAt(te, path), c).res.val))

InitSiblings ==
    /\ DESERIALIZATION_SIGNATURE = None
    /\ signature_calls = <<>>
    /\ input = <<>>
    /\ output = None
    /\ trace = empty_trace
    /\ before = empty_trace
    /\ mutation = NoMutation
    /\ mutations = 0
    /\ \E t \in ClosedTerms \cup OpenTerms, c \in Contexts :
           /\ Len(Subterms(t)) = 2
           /\ t \in ClosedTerms => c = empty_context
           /\ \A i \in 1 .. 2 : evaluate_symbolic(Subterms(t)[i], c).res.ok
           /\ term = installed(installed(t, c, << 1 >>), c, << 2 >>)
           /\ knowledge = c.knowledge
           /\ claims = c.claims
    /\ ops = 0
    /\ last_op = NoOp
    /\ pc = "idle"
    /\ calls = <<>>
    /\ lazy = None
    /\ splices = <<>>
    /\ result = None

NextSiblings ==
    \/ \E path \in Paths(term) : \E bytes \in MutatedPayloads :
           MutatePayload(path, bytes)
    \/ Evaluate

SpecSiblings == InitSiblings /\ [][NextSiblings]_vars

(***************************************************************************)
(* The state machine of one trace under the structural mutators            *)
(***************************************************************************)
\* Term::get_type_shape
get_type_shape(te) ==
    IF te.term.tag = "Variable" THEN te.term.variable.typ
    ELSE te.term.func.shape.return_type

\* A node of the trace: the recipe of step `step`, at `path`.
Site(step, path) == [step |-> step, path |-> path]

InputSteps(tr) == { i \in DOMAIN tr.steps : tr.steps[i].action.tag = "Input" }

\* The nodes choose_term may return: every node of every input step's recipe.
choose_term(tr) ==
    UNION { { Site(i, p) : p \in Paths(tr.steps[i].action.recipe) } :
            i \in InputSteps(tr) }

term_at(tr, site) == SubtermAt(tr.steps[site.step].action.recipe, site.path)

\* Writing through the mutable reference choose_term_mut returned.
write_term_at(tr, site, new) ==
    [tr EXCEPT !.steps[site.step].action.recipe = ReplaceAt(@, site.path, new)]

\* Function::change_function
change_function(func, shape, dynamic_function) ==
    [func EXCEPT !.shape = shape, !.dynamic_fn = dynamic_function]

\* A filter that accepts any function of the same argument types.
ReplaceMatch_filter_arguments_only(t, requested_shape) ==
    /\ t.tag = "Application"
    /\ t.func.shape.name # requested_shape.name
    /\ t.func.shape.argument_types = requested_shape.argument_types

\* A filter that accepts every application of another function.
ReplaceMatch_filter_name_only(t, requested_shape) ==
    /\ t.tag = "Application"
    /\ t.func.shape.name # requested_shape.name

\* `filter` of ReplaceMatchMutator::mutate
ReplaceMatch_filter(t, requested_shape) ==
    /\ t.tag # "Variable"
    /\ t.func.shape.name # requested_shape.name
    /\ t.func.shape.return_type = requested_shape.return_type
    /\ t.func.shape.argument_types = requested_shape.argument_types

\* A function of one argument whose argument type is its return type.
fn_decode_ecdh_pubkey ==
    [shape |-> Shape("fn_decode_ecdh_pubkey", << "Vec<u8>" >>, "Vec<u8>"),
     dynamic_fn |-> "fn_decode_ecdh_pubkey"]

\* SIGNATURE.functions: the (shape, dynamic_fn) pairs the mutators draw from.
SIGNATURE ==
    [functions |->
        [i \in DOMAIN SIGNATURE_functions |-> new_function(SIGNATURE_functions[i].name)]
            \o << fn_decode_ecdh_pubkey >>]

\* An insertion that overwrites the element at the index.
insert_overwriting(v, index, element) ==
    SubSeq(v, 1, index) \o << element >> \o SubSeq(v, index + 2, Len(v))

\* Vec::insert(index, element), index counted from 0
insert(v, index, element) ==
    SubSeq(v, 1, index) \o << element >> \o SubSeq(v, index + 1, Len(v))

\* A removal that also drops everything after the index.
remove_truncating(v, index) == SubSeq(v, 1, index)

\* Vec::remove(index), index counted from 0
remove(v, index) == SubSeq(v, 1, index) \o SubSeq(v, index + 2, Len(v))

\* A filter for functions of two arguments whose first argument type is the
\* return type.
RemoveAndLift_filter_binary(t) ==
    /\ t.tag = "Application"
    /\ Len(t.func.shape.argument_types) = 2
    /\ t.func.shape.argument_types[1] = t.func.shape.return_type

\* A filter for functions of any number of arguments whose first argument type
\* is the return type.
RemoveAndLift_filter_first_argument(t) ==
    /\ t.tag = "Application"
    /\ Len(t.func.shape.argument_types) >= 1
    /\ t.func.shape.argument_types[1] = t.func.shape.return_type

\* `filter` of RemoveAndLiftMutator::mutate
RemoveAndLift_filter(t) ==
    /\ t.tag # "Variable"
    /\ Len(t.func.shape.argument_types) = 1
    /\ t.func.shape.argument_types[1] = t.func.shape.return_type

\* A filter that accepts every term.
ReplaceReuse_filter_any(te, replacement) == TRUE

\* the filter closure of ReplaceReuseMutator::mutate
ReplaceReuse_filter(te, replacement) ==
    get_type_shape(te) = get_type_shape(replacement)

\* the seed of scenario S2: one input whose recipe is the constant fn_seq_0
seq_0_trace == Trace(<<>>, <<0>>, << Step(0, Input(App("fn_seq_0", <<>>))) >>)

\* two inputs around an output, as in setup_simple_trace
simple_trace ==
    Trace(<<>>, <<0, 1>>,
          << Step(0, Input(encrypt12_term)),
             Step(1, Output),
             Step(1, Input(extensions_term)) >>)

\* recipes with a variable and with an argument list that does not fit
open_trace ==
    Trace(<<>>, <<0>>,
          << Step(0, Input(encrypt12_of_variable_seq)),
             Step(0, Input(missing_argument_term)) >>)

\* The one-argument function applied to `subterms`.
decode_ecdh_pubkey(subterms) == From(Application(fn_decode_ecdh_pubkey, subterms))

\* a well-typed recipe with two applications of the one-argument function
lift_trace ==
    Trace(<<>>, <<0>>,
          << Step(0, Input(decode_ecdh_pubkey(
                 << decode_ecdh_pubkey(<< App("fn_empty_bytes_vec", <<>>) >>) >>))) >>)

\* recipes that apply the one-argument function to no argument, to an argument
\* of another type and to two arguments, built as test_compilation builds its
\* terms
ill_lift_trace ==
    Trace(<<>>, <<0>>,
          << Step(0, Input(decode_ecdh_pubkey(<<>>))),
             Step(0, Input(decode_ecdh_pubkey(<< App("fn_seq_0", <<>>) >>))),
             Step(0, Input(decode_ecdh_pubkey(
                 << App("fn_empty_bytes_vec", <<>>), App("fn_seq_1", <<>>) >>))) >>)

SeedTraces ==
    { empty_trace, seq_0_trace, simple_trace, open_trace, lift_trace, ill_lift_trace }

InitMutation ==
    /\ DESERIALIZATION_SIGNATURE = None
    /\ signature_calls = <<>>
    /\ input = <<>>
    /\ output = None
    /\ trace \in SeedTraces
    /\ before = trace
    /\ mutation = NoMutation
    /\ mutations = 0
    /\ term = u32_variable_term
    /\ knowledge = <<>>
    /\ claims = <<>>
    /\ ops = 0
    /\ last_op = NoOp
    /\ pc = "idle"
    /\ calls = <<>>
    /\ lazy = None
    /\ splices = <<>>
    /\ result = None

\* A mutator can be called: the bound is not reached and no call has panicked.
Running == mutations < MaxMutations /\ mutation.result # "Panicked"

Called(mutator, returned) ==
    [mutator |-> mutator, requested |-> None, result |-> returned]

\* RepeatMutator::mutate
Repeat ==
    /\ Running
    /\ LET steps == trace.steps
           length == Len(steps)
       IN  IF length = 0
           THEN /\ trace' = trace
                /\ mutation' = Called("Repeat", "Skipped")
           ELSE \E insert_index \in 0 .. length - 1 : \E chosen \in DOMAIN steps :
                    /\ trace' = [trace EXCEPT
                                    !.steps = insert(steps, insert_index, steps[chosen])]
                    /\ mutation' = Called("Repeat", "Mutated")
    /\ before' = trace
    /\ mutations' = mutations + 1
    /\ UNCHANGED <<term, knowledge, claims, ops, last_op, pc, calls, lazy, splices,
                   result, signature_vars, function_vars>>

\* SkipMutator::mutate
Skip ==
    /\ Running
    /\ LET steps == trace.steps
           length == Len(steps)
       IN  IF length = 0
           THEN /\ trace' = trace
                /\ mutation' = Called("Skip", "Skipped")
           ELSE \E remove_index \in 0 .. length - 1 :
                    /\ trace' = [trace EXCEPT !.steps = remove(steps, remove_index)]
                    /\ mutation' = Called("Skip", "Mutated")
    /\ before' = trace
    /\ mutations' = mutations + 1
    /\ UNCHANGED <<term, knowledge, claims, ops, last_op, pc, calls, lazy, splices,
                   result, signature_vars, function_vars>>

\* ReplaceReuseMutator::mutate
ReplaceReuse ==
    /\ Running
    /\ IF choose_term(trace) = {}
       THEN /\ trace' = trace
            /\ mutation' = Called("ReplaceReuse", "Skipped")
       ELSE \E chosen \in choose_term(trace) :
                LET replacement == term_at(trace, chosen)
                    candidates ==
                        { site \in choose_term(trace) :
                              ReplaceReuse_filter(term_at(trace, site), replacement) }
                IN  IF candidates = {}
                    THEN /\ trace' = trace
                         /\ mutation' = Called("ReplaceReuse", "Skipped")
                    ELSE \E to_replace \in candidates :
                             /\ trace' = write_term_at(trace, to_replace, replacement)
                             /\ mutation' = Called("ReplaceReuse", "Mutated")
    /\ before' = trace
    /\ mutations' = mutations + 1
    /\ UNCHANGED <<term, knowledge, claims, ops, last_op, pc, calls, lazy, splices,
                   result, signature_vars, function_vars>>

\* The body of RemoveAndLiftMutator::mutate: what it does to the trace and
\* what it returns.
RemoveAndLift_mutate ==
    LET candidates ==
            { site \in choose_term(trace) :
                  RemoveAndLift_filter(term_at(trace, site).term) }
    IN  IF candidates = {}
        THEN /\ trace' = trace
             /\ mutation' = Called("RemoveAndLift", "Skipped")
        ELSE \E site \in candidates :
                 LET subterm == term_at(trace, site).term.subterms IN
                 IF subterm = <<>>
                 THEN \* subterm.first().unwrap() on an empty list
                      /\ trace' = trace
                      /\ mutation' = Called("RemoveAndLift", "Panicked")
                 ELSE /\ trace' = write_term_at(trace, site, subterm[1])
                      /\ mutation' = Called("RemoveAndLift", "Mutated")

\* RemoveAndLiftMutator::mutate
RemoveAndLift ==
    /\ Running
    /\ RemoveAndLift_mutate
    /\ before' = trace
    /\ mutations' = mutations + 1
    /\ UNCHANGED <<term, knowledge, claims, ops, last_op, pc, calls, lazy, splices,
                   result, signature_vars, function_vars>>

\* ReplaceMatchMutator::mutate
ReplaceMatch ==
    /\ Running
    /\ \E i \in DOMAIN SIGNATURE.functions :
           LET requested == SIGNATURE.functions[i]
               candidates ==
                   { site \in choose_term(trace) :
                         ReplaceMatch_filter(term_at(trace, site).term, requested.shape) }
               called(returned) ==
                   [mutator |-> "ReplaceMatch", requested |-> Some(requested),
                    result |-> returned]
           IN  IF candidates = {}
               THEN /\ trace' = trace
                    /\ mutation' = called("Skipped")
               ELSE \E site \in candidates :
                        LET to_mutate == term_at(trace, site)
                            func == change_function(to_mutate.term.func,
                                        requested.shape, requested.dynamic_fn)
                        IN  /\ trace' = write_term_at(trace, site,
                                            [to_mutate EXCEPT !.term.func = func])
                            /\ mutation' = called("Mutated")
    /\ before' = trace
    /\ mutations' = mutations + 1
    /\ UNCHANGED <<term, knowledge, claims, ops, last_op, pc, calls, lazy, splices,
                   result, signature_vars, function_vars>>

NextMutation ==
    \/ Repeat
    \/ Skip
    \/ ReplaceReuse
    \/ ReplaceMatch
    \/ RemoveAndLift

SpecMutation == InitMutation /\ [][NextMutation]_vars

(***************************************************************************)
(* The state machine of a run that applies RemoveAndLift again and again   *)
(* to a well-typed trace                                                   *)
(***************************************************************************)
\* Bound on the nesting of the one-argument function in a recipe; the count of
\* the calls stops one above it.
MaxLifts == 3

\* The one-argument function applied n times to the empty byte vector.
RECURSIVE decoded(_)
decoded(n) ==
    IF n = 0 THEN App("fn_empty_bytes_vec", <<>>)
    ELSE decode_ecdh_pubkey(<< decoded(n - 1) >>)

\* Well-typed recipes, with and without applications of that function.
LiftRecipes ==
    { decoded(n) : n \in 0 .. MaxLifts } \cup { encrypt12_term, extensions_term }

\* Traces of one or two input steps.
LiftTraces ==
    { Trace(<<>>, <<0>>, << Step(0, Input(r)) >>) : r \in LiftRecipes }
        \cup { Trace(<<>>, <<0>>, << Step(0, Input(r)), Step(0, Input(q)) >>) :
                   r \in LiftRecipes, q \in LiftRecipes }

InitLift ==
    /\ DESERIALIZATION_SIGNATURE = None
    /\ signature_calls = <<>>
    /\ input = <<>>
    /\ output = None
    /\ trace \in LiftTraces
    /\ before = trace
    /\ mutation = NoMutation
    /\ mutations = 0
    /\ term = u32_variable_term
    /\ knowledge = <<>>
    /\ claims = <<>>
    /\ ops = 0
    /\ last_op = NoOp
    /\ pc = "idle"
    /\ calls = <<>>
    /\ lazy = None
    /\ splices = <<>>
    /\ result = None

\* One more call of RemoveAndLiftMutator::mutate in a run without end; the
\* calls are counted up to MaxLifts + 1.
LiftAgain ==
    /\ mutation.result # "Panicked"
    /\ RemoveAndLift_mutate
    /\ before' = trace
    /\ mutations' = IF mutations <= MaxLifts THEN mutations + 1 ELSE mutations
    /\ UNCHANGED <<term, knowledge, claims, ops, last_op, pc, calls, lazy, splices,
                   result, signature_vars, function_vars>>

NextLift == LiftAgain

\* The run goes on calling the mutator.
SpecLift == InitLift /\ [][NextLift]_vars /\ WF_vars(LiftAgain)

(***************************************************************************)
(* The state machine of the deserialization signature                      *)
(***************************************************************************)
\* The signatures of the process, by the name of their static.
Signatures == { "TEST_SIGNATURE", "SIGNATURE" }

\* One call on the cell: what was called, with which signature, how it ended
\* ("Ok", "Err" or "Panicked") and the signature it returned, if any.
SignatureCall(op, signature, outcome, returned) ==
    [op |-> op, signature |-> signature, outcome |-> outcome, returned |-> returned]

InitSignature ==
    /\ DESERIALIZATION_SIGNATURE = None
    /\ signature_calls = <<>>
    /\ input = <<>>
    /\ output = None
    /\ trace = empty_trace
    /\ before = empty_trace
    /\ mutation = NoMutation
    /\ mutations = 0
    /\ term = u32_variable_term
    /\ knowledge = <<>>
    /\ claims = <<>>
    /\ ops = 0
    /\ last_op = NoOp
    /\ pc = "idle"
    /\ calls = <<>>
    /\ lazy = None
    /\ splices = <<>>
    /\ result = None

\* A cell that takes every value it is given.
OnceCell_set_overwriting(cell, value) == [cell |-> Some(value), res |-> Ok(<<>>)]

\* OnceCell::set: the value is stored when the cell is empty and handed back as
\* the error otherwise.
OnceCell_set(cell, value) ==
    IF IsNone(cell) THEN [cell |-> Some(value), res |-> Ok(<<>>)]
    ELSE [cell |-> cell, res |-> Err(value)]

\* set_deserialize_signature(signature): OnceCell::set, its error mapped to ()
set_deserialize_signature(signature) ==
    /\ Len(signature_calls) < MaxSignatureCalls
    /\ LET set == OnceCell_set(DESERIALIZATION_SIGNATURE, signature) IN
           /\ DESERIALIZATION_SIGNATURE' = set.cell
           /\ signature_calls' = Append(signature_calls,
                  SignatureCall("set_deserialize_signature", Some(signature),
                                IF set.res.ok THEN "Ok" ELSE "Err", None))
    /\ UNCHANGED <<term, knowledge, claims, ops, last_op, pc, calls, lazy, splices,
                   result, trace_vars, function_vars>>

\* deserialize_signature(): OnceCell::get().expect(..).  The panic unwinds the
\* caller only; the cell is process-wide and other callers go on using it.
deserialize_signature ==
    /\ Len(signature_calls) < MaxSignatureCalls
    /\ signature_calls' = Append(signature_calls,
           IF IsSome(DESERIALIZATION_SIGNATURE)
           THEN SignatureCall("deserialize_signature", None, "Ok",
                              DESERIALIZATION_SIGNATURE)
           ELSE SignatureCall("deserialize_signature", None, "Panicked", None))
    /\ UNCHANGED DESERIALIZATION_SIGNATURE
    /\ UNCHANGED <<term, knowledge, claims, ops, last_op, pc, calls, lazy, splices,
                   result, trace_vars, function_vars>>

NextSignature ==
    \/ \E signature \in Signatures : set_deserialize_signature(signature)
    \/ deserialize_signature

SpecSignature == InitSignature /\ [][NextSignature]_vars

(***************************************************************************)
(* Display: stripping the module prefixes of a type or function name.      *)
(* A str is the sequence of its characters.                                *)
(***************************************************************************)
\* str.split(ch): the pieces of str between the occurrences of ch
RECURSIVE split(_, _)
split(str, ch) ==
    IF \A i \in DOMAIN str : str[i] # ch THEN << str >>
    ELSE LET i == CHOOSE i \in DOMAIN str :
                      str[i] = ch /\ \A j \in 1 .. i - 1 : str[j] # ch
         IN  << SubSeq(str, 1, i - 1) >> \o split(SubSeq(str, i + 1, Len(str)), ch)

\* Itertools::collect_tuple for a pair: Some when there are exactly two items
collect_tuple(items) ==
    IF Len(items) = 2 THEN Some(<< items[1], items[2] >>) ELSE None

\* str.rfind(pat): the position, from 0, of the last occurrence of pat
rfind(str, pat) ==
    LET hits == { i \in 0 .. (Len(str) - Len(pat)) : Slice(str, i, Len(pat)) = pat }
    IN  IF hits = {} THEN None
        ELSE Some(CHOOSE i \in hits : \A j \in hits : j <= i)

\* str[pos..]
from_position(str, pos) == SubSeq(str, pos + 1, Len(str))

\* remove_prefix
RECURSIVE remove_prefix(_)
remove_prefix(str) ==
    LET split_ == collect_tuple(split(str, "<"))
        colons == << ":", ":" >>
    IN  IF IsSome(split_)
        THEN LET non_generic == split_[1][1]
                 generic == SubSeq(split_[1][2], 1, Len(split_[1][2]) - 1)
                 pos == rfind(non_generic, colons)
             IN  IF IsSome(pos)
                 THEN from_position(non_generic, pos[1] + 2)
                          \o << "<" >> \o remove_prefix(generic) \o << ">" >>
                 ELSE non_generic \o << "<" >> \o remove_prefix(generic) \o << ">" >>
        ELSE LET pos == rfind(str, colons) IN
             IF IsSome(pos) THEN from_position(str, pos[1] + 2) ELSE str

\* Bound on the nesting depth of the generic parameters of a type name.
MaxGenerics == 2

\* The identifiers of the tests of remove_prefix.
ident_test == << "t", "e", "s", "t" >>
ident_Test == << "T", "e", "s", "t" >>
ident_asdf == << "a", "s", "d", "f" >>
ident_Asdf == << "A", "s", "d", "f" >>

\* Paths, as their segments: Test, test::test::Test, asdf::Asdf, Asdf
TypePaths ==
    { << ident_Test >>, << ident_test, ident_test, ident_Test >>,
      << ident_asdf, ident_Asdf >>, << ident_Asdf >> }

\* The segments of a path joined by `::`
RECURSIVE join(_)
join(path) ==
    IF Len(path) = 1 THEN path[1]
    ELSE path[1] \o << ":", ":" >> \o join(Tail(path))

\* The name of the type whose path is paths[1] and whose generic parameter, if
\* there are more paths, is the type of the remaining paths: p1<p2<p3>>
RECURSIVE type_name(_)
type_name(paths) ==
    IF Len(paths) = 1 THEN join(paths[1])
    ELSE join(paths[1]) \o << "<" >> \o type_name(Tail(paths)) \o << ">" >>

\* Type names of every nesting depth up to the bound.
TypeNames ==
    UNION { [1 .. n -> TypePaths] : n \in 1 .. MaxGenerics + 1 }

InitRemovePrefix ==
    /\ DESERIALIZATION_SIGNATURE = None
    /\ signature_calls = <<>>
    /\ input \in TypeNames
    /\ output = None
    /\ trace = empty_trace
    /\ before = empty_trace
    /\ mutation = NoMutation
    /\ mutations = 0
    /\ term = u32_variable_term
    /\ knowledge = <<>>
    /\ claims = <<>>
    /\ ops = 0
    /\ last_op = NoOp
    /\ pc = "idle"
    /\ calls = <<>>
    /\ lazy = None
    /\ splices = <<>>
    /\ result = None

\* remove_prefix(str) on the name of the type in `input`
RemovePrefix ==
    /\ IsNone(output)
    /\ output' = Some(remove_prefix(type_name(input)))
    /\ UNCHANGED <<term, knowledge, claims, ops, last_op, pc, calls, lazy, splices,
                   result, trace_vars, signature_vars, input>>

NextRemovePrefix == RemovePrefix

SpecRemovePrefix == InitRemovePrefix /\ [][NextRemovePrefix]_vars

(***************************************************************************)
(* The search for a byte string, on its own                                *)
(***************************************************************************)
\* Bound on the lengths of the haystack and of the needle.
MaxLen == 3

\* The byte strings of bytes 0 and 1 up to that length.
ByteStrings == UNION { [1 .. n -> {0, 1}] : n \in 0 .. MaxLen }

InitSearch ==
    /\ DESERIALIZATION_SIGNATURE = None
    /\ signature_calls = <<>>
    /\ \E haystack \in ByteStrings : \E needle \in ByteStrings :
           input = [haystack |-> haystack, needle |-> needle]
    /\ output = None
    /\ trace = empty_trace
    /\ before = empty_trace
    /\ mutation = NoMutation
    /\ mutations = 0
    /\ term = u32_variable_term
    /\ knowledge = <<>>
    /\ claims = <<>>
    /\ ops = 0
    /\ last_op = NoOp
    /\ pc = "idle"
    /\ calls = <<>>
    /\ lazy = None
    /\ splices = <<>>
    /\ result = None

\* search_sub_vec(haystack, needle)
SearchSubVec ==
    /\ IsNone(output)
    /\ output' = Some(search_sub_vec(input.haystack, input.needle))
    /\ UNCHANGED <<term, knowledge, claims, ops, last_op, pc, calls, lazy, splices,
                   result, trace_vars, signature_vars, input>>

NextSearch == SearchSubVec

SpecSearch == InitSearch /\ [][NextSearch]_vars

(***************************************************************************)
(* Properties of the payload overlay                                       *)
(***************************************************************************)
Node(path) == SubtermAt(term, path)

\* C1: payload invariant A over the whole recipe: no node that carries a
\* payload has a strict descendant that carries a payload.
PayloadInvariantA ==
    \A p \in Paths(term) : \A q \in Paths(term) :
        (IsStrictPrefix(p, q) /\ IsSome(Node(p).payloads))
            => IsNone(Node(q).payloads)

\* C2: right after add_payloads at node N, N carries the payload it was given
\* and every strict descendant of N, of whatever kind, carries none.
AddPayloadsClearsDescendants ==
    last_op.op = "add_payloads" =>
        /\ Node(last_op.path).payloads
               = Some(Payloads(last_op.payload, last_op.payload))
        /\ \A q \in Paths(term) :
               IsStrictPrefix(last_op.path, q) => IsNone(Node(q).payloads)

(***************************************************************************)
(* Properties of the splicing                                              *)
(***************************************************************************)
Occurs(haystack, needle, i) ==
    /\ i + Len(needle) <= Len(haystack)
    /\ Slice(haystack, i, Len(needle)) = needle

\* C3: a payload whose payload_0 occurs in the current buffer replaces exactly
\* the first occurrence: the bytes before it and after it are kept (so a second
\* occurrence stays), and the length changes by len(payload) - len(payload_0).
FirstOccurrenceReplaced ==
    \A n \in DOMAIN splices :
        LET s == splices[n] IN
        /\ (\E i \in 0 .. Len(s.before) : Occurs(s.before, s.old_b, i))
               => IsSome(s.found)
        /\ IsSome(s.found) =>
               LET i == s.found[1] IN
               /\ Occurs(s.before, s.old_b, i)
               /\ \A j \in 0 .. (i - 1) : ~Occurs(s.before, s.old_b, j)
               /\ SubSeq(s.after, 1, i) = SubSeq(s.before, 1, i)
               /\ Slice(s.after, i, Len(s.new_b)) = s.new_b
               /\ SubSeq(s.after, i + Len(s.new_b) + 1, Len(s.after))
                      = SubSeq(s.before, i + Len(s.old_b) + 1, Len(s.before))
               /\ Len(s.after) = Len(s.before) + Len(s.new_b) - Len(s.old_b)

\* C3 witness: an evaluation spliced a mutated payload over the first of two
\* occurrences of its payload_0, and the second occurrence is still there.
SplicedFirstOfTwo ==
    /\ pc = "done"
    /\ \E n \in DOMAIN splices :
           LET s == splices[n] IN
           /\ IsSome(s.found)
           /\ s.new_b # s.old_b
           /\ s.old_b # <<>>
           /\ \E j \in (s.found[1] + 1) .. Len(s.before) :
                  Occurs(s.before, s.old_b, j)
           /\ IsSome(s.twice)

IsConstant(te) == te.term.tag = "Application" /\ te.term.subterms = <<>>

Symbolic(te) == evaluate_symbolic(te, context).res

\* C4: for A(B(), C()) whose encoding is the encoding of B followed by that of
\* C, with a payload at exactly one child whose payload_0 is that child's
\* encoding, evaluate(A) is the encoding of A with the payload at that child's
\* position and the other child's bytes unchanged.
ChildPayloadSplicedInPlace ==
    ( /\ pc = "done"
      /\ term.term.tag = "Application"
      /\ Len(term.term.subterms) = 2
      /\ IsNone(term.payloads)
      /\ \A i \in {1, 2} : IsConstant(Subterms(term)[i])
      /\ \A i \in {1, 2} : Symbolic(Subterms(term)[i]).ok
      /\ Symbolic(term).ok )
    =>
    LET B == Subterms(term)[1]
        C == Subterms(term)[2]
        bytes_B == Symbolic(B).val
        bytes_C == Symbolic(C).val
    IN  Symbolic(term).val = bytes_B \o bytes_C =>
            /\ ( /\ IsSome(B.payloads) /\ IsNone(C.payloads)
                 /\ B.payloads[1].payload_0 = bytes_B )
                   => result = Some(Ok(B.payloads[1].payload \o bytes_C))
            /\ ( /\ IsSome(C.payloads) /\ IsNone(B.payloads)
                 /\ C.payloads[1].payload_0 = bytes_C )
                   => result = Some(Ok(bytes_B \o C.payloads[1].payload))

\* C5: a payload whose payload_0 does not occur in the current buffer leaves
\* the buffer as it is; every payload of the term is still processed, in the
\* order of all_payloads, each on the buffer its predecessor left, and evaluate
\* returns Ok with the last buffer.
LostAnchorSkipped ==
    (pc = "done" /\ lazy[1].ok) =>
        LET payloads == all_payloads(term)
            encoding == any_get_encoding(lazy[1].val)
        IN  /\ result[1].ok
            /\ Len(splices) = Len(payloads)
            /\ \A n \in DOMAIN splices :
                   /\ splices[n].old_b = payloads[n].payload_0
                   /\ splices[n].new_b = payloads[n].payload
                   /\ splices[n].before
                          = IF n = 1 THEN encoding ELSE splices[n - 1].after
                   /\ (\A i \in 0 .. Len(splices[n].before) :
                           ~Occurs(splices[n].before, splices[n].old_b, i))
                          => /\ IsNone(splices[n].found)
                             /\ splices[n].after = splices[n].before
            /\ result[1].val
                   = IF splices = <<>> THEN encoding
                     ELSE splices[Len(splices)].after

\* C5 witness: an evaluation returned Ok after a payload that was not found was
\* followed by one that was found and spliced.
SplicedAfterLostAnchor ==
    /\ pc = "done"
    /\ result[1].ok
    /\ \E n \in DOMAIN splices :
           /\ n < Len(splices)
           /\ IsNone(splices[n].found)
           /\ IsSome(splices[n + 1].found)

(***************************************************************************)
(* Properties of lazy evaluation                                           *)
(***************************************************************************)
RECURSIVE without_payloads(_)
without_payloads(te) ==
    IF te.term.tag = "Variable" THEN TermEval(te.term, None)
    ELSE TermEval(
             [te.term EXCEPT !.subterms =
                 [i \in DOMAIN @ |-> without_payloads(@[i])]],
             None)

\* C6: at every node evaluate_symbolic is the type encoding of evaluate_lazy,
\* and both are what they are on the same tree with every payload removed.
EvaluationIgnoresPayloads ==
    /\ \A p \in Paths(term) :
           LET l == TermEval_evaluate_lazy(Node(p), context, <<>>)
               e == evaluate_symbolic(Node(p), context)
           IN  /\ e.res = IF l.res.ok THEN Ok(any_get_encoding(l.res.val))
                          ELSE l.res
               /\ l = TermEval_evaluate_lazy(without_payloads(Node(p)), context, <<>>)
               /\ e = evaluate_symbolic(without_payloads(Node(p)), context)
    /\ pc = "done" =>
           lazy = Some(TermEval_evaluate_lazy(without_payloads(term), context, <<>>).res)

\* C6 witness: a recipe with a mutated payload was evaluated and its lazy
\* evaluation succeeded.
EvaluatedWithMutatedPayload ==
    /\ pc = "done"
    /\ lazy[1].ok
    /\ \E p \in Paths(term) :
           /\ IsSome(Node(p).payloads)
           /\ Node(p).payloads[1].payload # Node(p).payloads[1].payload_0

\* C7: a Variable is looked up in the knowledge store first; the claim list is
\* asked only when the store has nothing, and when neither has anything the
\* result is Error::Term("Unable to find variable").
VariableLookupOrder ==
    (pc = "done" /\ term.term.tag = "Variable") =>
        LET v == term.term.variable
            data == find_variable(context, v.typ, v.query)
            claim == find_claim(context, v.query.agent_name, v.typ)
        IN  /\ Head(calls) = Call("find_variable", <<>>)
            /\ IsSome(data) =>
                   /\ calls = << Call("find_variable", <<>>) >>
                   /\ lazy = Some(Ok(data[1]))
            /\ IsNone(data) =>
                   calls = << Call("find_variable", <<>>), Call("find_claim", <<>>) >>
            /\ (IsNone(data) /\ IsSome(claim)) => lazy = Some(Ok(claim[1]))
            /\ (IsNone(data) /\ IsNone(claim)) =>
                   /\ lazy = Some(Err(Error_Term("Unable to find variable")))
                   /\ result = lazy

\* C7 witness: a Variable was evaluated with an empty knowledge store and an
\* empty claim list.
VariableNotFound ==
    /\ pc = "done"
    /\ term.term.tag = "Variable"
    /\ knowledge = <<>>
    /\ claims = <<>>
    /\ result = Some(Err(Error_Term("Unable to find variable")))

\* The evaluation of argument i of the root on its own.
Argument(i) == TermEval_evaluate_lazy(Subterms(term)[i], context, <<i>>)

FailingArguments == { i \in DOMAIN Subterms(term) : ~Argument(i).res.ok }

FirstFailing == CHOOSE i \in FailingArguments : \A j \in FailingArguments : i <= j

\* C8: an Application evaluates its arguments left to right (each depth
\* first); at the first failing argument it returns that argument's error, having
\* evaluated no later argument and not called the function; otherwise it calls
\* the function once, last, on the results in order, and a failure e of the
\* function is returned as Error::Fn(e).
ArgumentsLeftToRight ==
    (pc = "done" /\ term.term.tag = "Application") =>
        LET n == Len(Subterms(term))
            evaluated == IF FailingArguments = {} THEN n ELSE FirstFailing
            own == { k \in DOMAIN calls : calls[k] = Call("dynamic_fn", <<>>) }
        IN  /\ \A k \in DOMAIN calls : \A m \in DOMAIN calls :
                   (k < m /\ calls[k].at # <<>> /\ calls[m].at # <<>>)
                       => Head(calls[k].at) <= Head(calls[m].at)
            /\ \A k \in DOMAIN calls :
                   calls[k].at # <<>> => Head(calls[k].at) <= evaluated
            /\ calls = Concat([i \in 1 .. evaluated |-> Argument(i).calls])
                           \o [k \in 1 .. Cardinality(own) |-> Call("dynamic_fn", <<>>)]
            /\ FailingArguments # {} =>
                   /\ own = {}
                   /\ lazy = Some(Argument(FirstFailing).res)
            /\ FailingArguments = {} =>
                   LET r == dynamic_fn(term.term.func.dynamic_fn,
                                       [i \in 1 .. n |-> Argument(i).res.val])
                   IN  /\ own = { Len(calls) }
                       /\ r.ok => lazy = Some(r)
                       /\ ~r.ok => lazy = Some(Err(Error_Fn(r.val)))

\* C8 witness: the first of two arguments failed, so the second argument was
\* not evaluated and the function was not called.
StoppedAtFirstFailingArgument ==
    /\ pc = "done"
    /\ term.term.tag = "Application"
    /\ Len(Subterms(term)) = 2
    /\ FailingArguments # {}
    /\ FirstFailing = 1
    /\ Argument(2).calls # <<>>
    /\ \A k \in DOMAIN calls : calls[k].at # <<>> /\ Head(calls[k].at) = 1

\* C9: an Application whose number of arguments is not the number of argument
\* types of its function, all arguments evaluating successfully, evaluates to
\* the error Fn(WrongArity).
WrongArityReported ==
    ( /\ pc = "done"
      /\ term.term.tag = "Application"
      /\ FailingArguments = {}
      /\ Len(Subterms(term)) # Len(term.term.func.shape.argument_types) )
    =>
    /\ lazy = Some(Err(Error_Fn("WrongArity")))
    /\ result = Some(Err(Error_Fn("WrongArity")))

\* C9 witness: a function of two arguments applied to one was evaluated.
MissingArgumentEvaluated ==
    /\ pc = "done"
    /\ term.term.tag = "Application"
    /\ Len(Subterms(term)) < Len(term.term.func.shape.argument_types)
    /\ FailingArguments = {}
    /\ result = Some(Err(Error_Fn("WrongArity")))

(***************************************************************************)
(* Properties of the mutators                                              *)
(***************************************************************************)
IsSignatureFunction(func) ==
    \E i \in DOMAIN SIGNATURE.functions : func = SIGNATURE.functions[i]

\* The nodes of the trace `before` whose own function symbol, variable or
\* payloads are not what the node at the same place of `trace` has.
ChangedNodes ==
    { site \in choose_term(before) :
          \/ site.step \notin InputSteps(trace)
          \/ site.path \notin Paths(trace.steps[site.step].action.recipe)
          \/ LET old == term_at(before, site)
                 new == term_at(trace, site)
             IN  \/ old.term.tag # new.term.tag
                 \/ old.payloads # new.payloads
                 \/ old.term.tag = "Variable" /\ old.term # new.term
                 \/ /\ old.term.tag = "Application"
                    /\ \/ old.term.func # new.term.func
                       \/ Len(old.term.subterms) # Len(new.term.subterms) }

\* C10: when ReplaceMatch returns Mutated, exactly one node of the trace has
\* changed, it is an Application and only its function has changed, to a
\* function of the signature with another name and the same argument types and
\* return type; its children, every other node, the steps and the rest of the
\* trace are as before, and every recipe root has the type shape it had.
ReplaceMatchSwapsOneSymbol ==
    (mutation.mutator = "ReplaceMatch" /\ mutation.result = "Mutated") =>
        /\ choose_term(trace) = choose_term(before)
        /\ Cardinality(ChangedNodes) = 1
        /\ \A site \in ChangedNodes :
               LET old == term_at(before, site)
                   new == term_at(trace, site)
               IN  /\ old.term.tag = "Application"
                   /\ new.term.tag = "Application"
                   /\ IsSignatureFunction(new.term.func)
                   /\ new.term.func.shape.name # old.term.func.shape.name
                   /\ new.term.func.shape.argument_types
                          = old.term.func.shape.argument_types
                   /\ new.term.func.shape.return_type
                          = old.term.func.shape.return_type
                   /\ new.term.subterms = old.term.subterms
                   /\ new.payloads = old.payloads
                   /\ trace = write_term_at(before, site,
                                  [old EXCEPT !.term.func = new.term.func])
        /\ \A i \in InputSteps(before) :
               get_type_shape(trace.steps[i].action.recipe)
                   = get_type_shape(before.steps[i].action.recipe)

\* C10 witness: ReplaceMatch returned Mutated on a trace whose recipe was
\* fn_seq_0, and the recipe is now fn_seq_1.
Seq0ReplacedBySeq1 ==
    /\ mutation.mutator = "ReplaceMatch"
    /\ mutation.result = "Mutated"
    /\ before = seq_0_trace
    /\ trace.steps[1].action.recipe = App("fn_seq_1", <<>>)

\* The type shape of the recipe of every input step, by step index.
RootTypes(tr) ==
    [i \in InputSteps(tr) |-> get_type_shape(tr.steps[i].action.recipe)]

Returned(mutator, returned) ==
    mutation.mutator = mutator /\ mutation.result = returned

\* C11: RemoveAndLift selects only Application nodes whose shape has exactly
\* one argument type, equal to its return type; when it returns Mutated the
\* node has been replaced by its only child, and the type shape at that place
\* and of every recipe root is what it was.
RemoveAndLiftLiftsOnlyChild ==
    Returned("RemoveAndLift", "Mutated") =>
        /\ \E site \in choose_term(before) :
               LET old == term_at(before, site) IN
               /\ old.term.tag = "Application"
               /\ Len(old.term.func.shape.argument_types) = 1
               /\ old.term.func.shape.argument_types[1]
                      = old.term.func.shape.return_type
               /\ Len(old.term.subterms) = 1
               /\ trace = write_term_at(before, site, old.term.subterms[1])
               /\ get_type_shape(term_at(trace, site)) = get_type_shape(old)
        /\ RootTypes(trace) = RootTypes(before)

\* C12: when ReplaceReuse returns Mutated the trace is the trace before the
\* call with one sub-term T replaced by a copy of a sub-term R of the trace
\* before the call, T and R having the same type shape; every recipe root has
\* the type shape it had.
ReplaceReuseKeepsTypes ==
    Returned("ReplaceReuse", "Mutated") =>
        /\ \E r \in choose_term(before) : \E t \in choose_term(before) :
               /\ get_type_shape(term_at(before, t))
                      = get_type_shape(term_at(before, r))
               /\ trace = write_term_at(before, t, term_at(before, r))
               /\ term_at(trace, t) = term_at(before, r)
        /\ RootTypes(trace) = RootTypes(before)

\* C12 witness: ReplaceReuse returned Mutated after it replaced a sub-term of
\* one step by a different sub-term taken from another step.
ReusedAcrossSteps ==
    /\ Returned("ReplaceReuse", "Mutated")
    /\ \E r \in choose_term(before) : \E t \in choose_term(before) :
           /\ r.step # t.step
           /\ term_at(before, t) # term_at(before, r)
           /\ trace = write_term_at(before, t, term_at(before, r))

\* C13: every call of a mutator returns Mutated or Skipped; none panics.
MutatorsNeverPanic ==
    mutation.mutator # "none" => mutation.result \in {"Mutated", "Skipped"}

\* The nodes of `tr` that function `requested` can be swapped in for.
CompatibleSites(tr, requested) ==
    { site \in choose_term(tr) :
          LET t == term_at(tr, site).term IN
          /\ t.tag = "Application"
          /\ t.func.shape.name # requested.shape.name
          /\ t.func.shape.argument_types = requested.shape.argument_types
          /\ t.func.shape.return_type = requested.shape.return_type }

\* The nodes of `tr` whose function has one argument type, equal to its return
\* type.
LiftableSites(tr) ==
    { site \in choose_term(tr) :
          LET t == term_at(tr, site).term IN
          /\ t.tag = "Application"
          /\ Len(t.func.shape.argument_types) = 1
          /\ t.func.shape.argument_types[1] = t.func.shape.return_type }

\* C14: a mutator returns Skipped only when the trace has no candidate site for
\* its rewrite (no step for Repeat and Skip, no sub-term for ReplaceReuse, no
\* node that some function of the signature can be swapped in for for
\* ReplaceMatch, no liftable node for RemoveAndLift), and then the trace is
\* the trace before the call.
SkippedMeansNoSite ==
    mutation.result = "Skipped" =>
        /\ trace = before
        /\ mutation.mutator \in {"Repeat", "Skip"} => before.steps = <<>>
        /\ mutation.mutator = "ReplaceReuse" => choose_term(before) = {}
        /\ mutation.mutator = "ReplaceMatch" =>
               \A i \in DOMAIN SIGNATURE.functions :
                   CompatibleSites(before, SIGNATURE.functions[i]) = {}
        /\ mutation.mutator = "RemoveAndLift" => LiftableSites(before) = {}

\* C14 (amended): as above, except that ReplaceMatch returns Skipped only when
\* the trace has no node that the function it drew from the signature can be
\* swapped in for; such nodes may exist for other functions of the signature.
SkippedMeansNoSiteForDraw ==
    mutation.result = "Skipped" =>
        /\ trace = before
        /\ mutation.mutator \in {"Repeat", "Skip"} => before.steps = <<>>
        /\ mutation.mutator = "ReplaceReuse" => choose_term(before) = {}
        /\ mutation.mutator = "ReplaceMatch" =>
               CompatibleSites(before, mutation.requested[1]) = {}
        /\ mutation.mutator = "RemoveAndLift" => LiftableSites(before) = {}

\* C14 witness: ReplaceMatch returned Skipped for the function it drew although
\* another function of the signature could have been swapped in somewhere.
SkippedForTheDraw ==
    /\ Returned("ReplaceMatch", "Skipped")
    /\ trace = before
    /\ \E i \in DOMAIN SIGNATURE.functions :
           CompatibleSites(before, SIGNATURE.functions[i]) # {}

\* C15: Skip on a trace without steps returns Skipped and leaves the trace as
\* it is; on a trace of n >= 1 steps it returns Mutated and the steps are the n
\* steps with exactly one removed, the others unmodified and in their order.
SkipRemovesOneStep ==
    mutation.mutator = "Skip" =>
        LET n == Len(before.steps) IN
        /\ n = 0 => mutation.result = "Skipped" /\ trace = before
        /\ n >= 1 =>
               /\ mutation.result = "Mutated"
               /\ Len(trace.steps) = n - 1
               /\ \E k \in 1 .. n :
                      trace.steps = [i \in 1 .. n - 1 |->
                                        IF i < k THEN before.steps[i]
                                        ELSE before.steps[i + 1]]
               /\ trace.prior_traces = before.prior_traces
               /\ trace.descriptors = before.descriptors

\* C15 witness: Skip removed the first of three steps and the two later steps
\* are still there.
SkippedFirstOfThree ==
    /\ Returned("Skip", "Mutated")
    /\ Len(before.steps) = 3
    /\ trace.steps = << before.steps[2], before.steps[3] >>
    /\ before.steps[2] # before.steps[3]

\* C16: Repeat on a trace without steps returns Skipped; on a trace of n >= 1
\* steps it returns Mutated and the trace has n + 1 steps: a copy of one of the
\* n steps inserted at one of the indices 0 .. n-1, and the n steps unmodified
\* in their order around it.
RepeatInsertsOneStep ==
    mutation.mutator = "Repeat" =>
        LET n == Len(before.steps) IN
        /\ n = 0 => mutation.result = "Skipped" /\ trace = before
        /\ n >= 1 =>
               /\ mutation.result = "Mutated"
               /\ Len(trace.steps) = n + 1
               /\ \E k \in 1 .. n : \E c \in 1 .. n :
                      trace.steps = [i \in 1 .. n + 1 |->
                                        IF i < k THEN before.steps[i]
                                        ELSE IF i = k THEN before.steps[c]
                                        ELSE before.steps[i - 1]]
               /\ trace.prior_traces = before.prior_traces
               /\ trace.descriptors = before.descriptors

\* C16 witness: Repeat inserted a copy of the last of three steps in front of
\* the first.
RepeatedLastInFront ==
    /\ Returned("Repeat", "Mutated")
    /\ Len(before.steps) = 3
    /\ before.steps[3] # before.steps[1]
    /\ trace.steps = << before.steps[3] >> \o before.steps

(***************************************************************************)
(* Properties of size and iteration                                        *)
(***************************************************************************)
\* C17: at every node of the recipe, for the TermEval and for its Term, size
\* is at least 1 and is 1 exactly when is_leaf holds; a leaf costs 1 and any
\* other node costs 1 plus the sum of the sizes of its children.
SizeOneIffLeaf ==
    \A p \in Paths(term) :
        LET self == Node(p)
            children == [i \in DOMAIN Subterms(self) |-> TermEval_size(Subterms(self)[i])]
        IN  /\ TermEval_size(self) >= 1
            /\ Term_size(self.term) >= 1
            /\ TermEval_size(self) = 1 <=> TermEval_is_leaf(self)
            /\ Term_size(self.term) = 1 <=> Term_is_leaf(self.term)
            /\ ~TermEval_is_leaf(self) => TermEval_size(self) = 1 + Sum(children)
            /\ ~Term_is_leaf(self.term) => Term_size(self.term) = 1 + Sum(children)

\* C17 witness: a node with sub-terms carries a payload, so that it is a leaf of
\* size 1 as a TermEval while its Term is not a leaf, and the node above it is
\* not a leaf.
PayloadOnInnerNode ==
    \E p \in Paths(term) :
        /\ p # <<>>
        /\ IsSome(Node(p).payloads)
        /\ Subterms(Node(p)) # <<>>
        /\ TermEval_size(Node(p)) = 1
        /\ Term_size(Node(p).term) > 1
        /\ TermEval_size(term) > 1

\* The position at which an iteration yields the node at path p.
Position(items, p) == CHOOSE k \in DOMAIN items : items[k].at = p

\* Every node once, each after all nodes below it, the nodes of a child before
\* those of the children to its right, the root last.
PostOrder(items, paths) ==
    /\ Len(items) = Cardinality(paths)
    /\ { items[k].at : k \in DOMAIN items } = paths
    /\ items[Len(items)].at = <<>>
    /\ \A p \in paths : \A q \in paths :
           /\ IsStrictPrefix(p, q) => Position(items, q) < Position(items, p)
           /\ \A n \in DOMAIN p \cap DOMAIN q :
                  (SubSeq(p, 1, n - 1) = SubSeq(q, 1, n - 1) /\ p[n] < q[n])
                      => Position(items, p) < Position(items, q)

\* C18: iterating the recipe, as a TermEval and as a Term, yields every node of
\* the tree exactly once, in post-order.
IterationPostOrder ==
    LET evals == TermEval_into_iter(term)
        terms == Term_into_iter(term.term)
    IN  /\ PostOrder(evals, Paths(term))
        /\ PostOrder(terms, Paths(term))
        /\ \A k \in DOMAIN evals : evals[k].node = Node(evals[k].at)
        /\ \A k \in DOMAIN terms : terms[k].node = Node(terms[k].at).term

\* C18 witness: a recipe of five nodes on three levels whose inner node, which
\* carries a payload, is yielded third, after its two leaves and before its
\* right sibling.
NestedTermIterated ==
    /\ Cardinality(Paths(term)) = 5
    /\ <<1, 2>> \in Paths(term)
    /\ IsSome(Node(<<1>>).payloads)
    /\ TermEval_into_iter(term)[1].at = <<1, 1>>
    /\ TermEval_into_iter(term)[3].at = <<1>>
    /\ TermEval_into_iter(term)[4].at = <<2>>

(***************************************************************************)
(* Properties of matchers                                                  *)
(***************************************************************************)
\* The matchers of one matcher type, as options.
Options(matchers) == { None } \cup { Some(m) : m \in matchers }

\* The three cases of k.matches(q).
MatchesAsStated(k, q) ==
    /\ IsNone(q) => Option_matches(k, q)
    /\ (IsSome(k) /\ IsSome(q)) => Option_matches(k, q) = Matcher_matches(k[1], q[1])
    /\ (IsNone(k) /\ IsSome(q)) => ~Option_matches(k, q)

\* C19: for a knowledge matcher k and a query matcher q of type Option<M>,
\* k.matches(q) is true when q is None, is a.matches(b) when k = Some(a) and
\* q = Some(b), and is false when k = None and q = Some(b); the relation is
\* not symmetric.
OptionMatcherRelation ==
    /\ \A matchers \in { {AnyMatcher}, {Handshake, Alert} } :
           /\ \A k \in Options(matchers) : \A q \in Options(matchers) :
                  MatchesAsStated(k, q)
           /\ \E k \in Options(matchers) : \E q \in Options(matchers) :
                  Option_matches(k, q) /\ ~Option_matches(q, k)
    /\ \A i \in DOMAIN knowledge : \A p \in Paths(term) :
           Node(p).term.tag = "Variable" =>
               MatchesAsStated(knowledge[i].matcher,
                               Node(p).term.variable.query.matcher)
    /\ (pc = "done" /\ term.term.tag = "Variable") =>
           LET v == term.term.variable
               fitting == { i \in DOMAIN knowledge :
                                /\ knowledge[i].agent_name = v.query.agent_name
                                /\ knowledge[i].data.typ = v.typ
                                /\ \/ IsNone(v.query.matcher)
                                   \/ /\ IsSome(knowledge[i].matcher)
                                      /\ Matcher_matches(knowledge[i].matcher[1],
                                                         v.query.matcher[1]) }
           IN  \A i \in fitting :
                   (\A j \in fitting : i <= j) => lazy = Some(Ok(knowledge[i].data))

\* C19 witness: a query with a matcher was not answered by the first knowledge
\* item of its agent and type, which has no matcher, nor by one with another
\* matcher, but by a later item with the same matcher.
UnmatchedKnowledgePassedOver ==
    /\ pc = "done"
    /\ term.term.tag = "Variable"
    /\ IsSome(term.term.variable.query.matcher)
    /\ Len(knowledge) = 3
    /\ IsNone(knowledge[1].matcher)
    /\ knowledge[2].matcher # term.term.variable.query.matcher
    /\ knowledge[3].matcher = term.term.variable.query.matcher
    /\ lazy = Some(Ok(knowledge[3].data))

(***************************************************************************)
(* Properties of the deserialization signature                             *)
(***************************************************************************)
\* No signature has been installed before call number i.
UnsetBefore(i) ==
    \A j \in 1 .. i - 1 :
        ~( /\ signature_calls[j].op = "set_deserialize_signature"
           /\ signature_calls[j].outcome = "Ok" )

\* C20: deserialize_signature called before any signature has been set returns
\* an error to its caller.
UnsetSignatureIsAnError ==
    \A i \in DOMAIN signature_calls :
        (signature_calls[i].op = "deserialize_signature" /\ UnsetBefore(i))
            => signature_calls[i].outcome = "Err"

\* The signature installed by the first set_deserialize_signature among calls
\* 1 .. i-1, if there is one.
FirstInstalled(i) ==
    LET sets == { j \in 1 .. i - 1 :
                      signature_calls[j].op = "set_deserialize_signature" }
    IN  IF sets = {} THEN None
        ELSE signature_calls[CHOOSE j \in sets : \A k \in sets : j <= k].signature

\* C21: of the calls of set_deserialize_signature only the first returns Ok,
\* every later one returns Err and leaves the cell as it is, and from the first
\* set on deserialize_signature returns the signature that call installed.
OnlyFirstSetSucceeds ==
    /\ DESERIALIZATION_SIGNATURE = FirstInstalled(Len(signature_calls) + 1)
    /\ \A i \in DOMAIN signature_calls :
           LET call == signature_calls[i] IN
           /\ call.op = "set_deserialize_signature" =>
                  call.outcome = (IF IsNone(FirstInstalled(i)) THEN "Ok" ELSE "Err")
           /\ (call.op = "deserialize_signature" /\ IsSome(FirstInstalled(i))) =>
                  call.outcome = "Ok" /\ call.returned = FirstInstalled(i)

\* C21 witness: a second set_deserialize_signature, with another signature
\* than the first, returned Err, and a later deserialize_signature returned the
\* signature of the first.
SecondSetRejected ==
    /\ Len(signature_calls) >= 3
    /\ signature_calls[1].op = "set_deserialize_signature"
    /\ signature_calls[2].op = "set_deserialize_signature"
    /\ signature_calls[2].signature # signature_calls[1].signature
    /\ signature_calls[2].outcome = "Err"
    /\ signature_calls[3].op = "deserialize_signature"
    /\ signature_calls[3].returned = signature_calls[1].signature
    /\ DESERIALIZATION_SIGNATURE = signature_calls[1].signature

(***************************************************************************)
(* Properties of display                                                   *)
(***************************************************************************)
\* The last segment of every path of a type name.
LastSegments(paths) == [i \in DOMAIN paths |-> << paths[i][Len(paths[i])] >>]

\* C22: remove_prefix keeps the last `::` segment of the non-generic part of a
\* type name and strips its generic parameter in the same way, at every nesting
\* depth; a name without `::` is returned as it is.
RemovePrefixStripsEveryDepth ==
    IsSome(output) => output[1] = type_name(LastSegments(input))

(***************************************************************************)
(* Properties of sequences of mutations                                    *)
(***************************************************************************)
\* Every Application node of the recipe has as many children as its shape has
\* argument types, each of the type shape of its argument type.
WellTypedTerm(te) ==
    \A p \in Paths(te) :
        LET node == SubtermAt(te, p) IN
        node.term.tag = "Application" =>
            LET argument_types == node.term.func.shape.argument_types IN
            /\ Len(node.term.subterms) = Len(argument_types)
            /\ \A i \in DOMAIN argument_types :
                   get_type_shape(node.term.subterms[i]) = argument_types[i]

WellTyped(tr) ==
    \A i \in InputSteps(tr) : WellTypedTerm(tr.steps[i].action.recipe)

\* C23: a mutator called on a well-typed trace leaves a well-typed trace, so
\* that a trace that starts well-typed is well-typed after every sequence of
\* Repeat, Skip, ReplaceReuse, ReplaceMatch and RemoveAndLift.
WellTypedPreserved ==
    WellTyped(before) => WellTyped(trace)

\* C23 witness: two mutators in a row rewrote terms of a well-typed trace with
\* applications of several arguments, and the trace is well-typed.
WellTypedAfterTwoRewrites ==
    /\ mutations = 2
    /\ mutation.mutator \in {"ReplaceReuse", "ReplaceMatch", "RemoveAndLift"}
    /\ mutation.result = "Mutated"
    /\ trace # before
    /\ Len(trace.steps) = Len(before.steps)
    /\ \E i \in DOMAIN before.steps : trace.steps[i] = before.steps[i]
    /\ \E site \in choose_term(before) : Len(Subterms(term_at(before, site))) = 2
    /\ WellTyped(before)
    /\ WellTyped(trace)

(***************************************************************************)
(* Properties of the order of the splices                                  *)
(***************************************************************************)
\* The nodes of the recipe that carry a payload.
PayloadPaths == { p \in Paths(term) : IsSome(Node(p).payloads) }

\* Bottom-up, left to right: p is below q, or p is in a subtree to the left of
\* the subtree of q.
BottomUpBefore(p, q) ==
    \/ IsStrictPrefix(q, p)
    \/ \E n \in DOMAIN p \cap DOMAIN q :
           SubSeq(p, 1, n - 1) = SubSeq(q, 1, n - 1) /\ p[n] < q[n]

\* The payload-carrying nodes in that order.
BottomUpOrder ==
    [k \in 1 .. Cardinality(PayloadPaths) |->
        CHOOSE p \in PayloadPaths :
            Cardinality({ q \in PayloadPaths : BottomUpBefore(q, p) }) = k - 1]

\* C24: all_payloads returns the payloads of the recipe bottom-up, those of
\* sibling subtrees left to right, and evaluate splices them in that order,
\* starting from the bytes of evaluate_symbolic, each splice continuing on the
\* buffer the one before left.
PayloadsBottomUp ==
    /\ all_payloads(term) = [k \in DOMAIN BottomUpOrder |-> Node(BottomUpOrder[k]).payloads[1]]
    /\ (pc = "done" /\ result[1].ok) =>
           /\ Len(splices) = Len(BottomUpOrder)
           /\ \A k \in DOMAIN splices :
                  /\ splices[k].old_b = Node(BottomUpOrder[k]).payloads[1].payload_0
                  /\ splices[k].new_b = Node(BottomUpOrder[k]).payloads[1].payload
                  /\ splices[k].before = IF k = 1 THEN Symbolic(term).val
                                         ELSE splices[k - 1].after
           /\ result[1].val = IF splices = <<>> THEN Symbolic(term).val
                              ELSE splices[Len(splices)].after

\* C24 witness: an evaluation of a recipe in which a node and a node below it
\* carry different payloads spliced the lower one first.
LowerPayloadSplicedFirst ==
    /\ pc = "done"
    /\ result[1].ok
    /\ Len(splices) = 2
    /\ \E p \in PayloadPaths : \E q \in PayloadPaths :
           /\ IsStrictPrefix(p, q)
           /\ Node(p).payloads[1].payload_0 # Node(q).payloads[1].payload_0
           /\ splices[1].old_b = Node(q).payloads[1].payload_0
           /\ splices[2].old_b = Node(p).payloads[1].payload_0
           /\ IsSome(splices[1].found)

\* The positions, from 0, at which needle occurs in haystack.
Occurrences(haystack, needle) ==
    { i \in 0 .. Len(haystack) : Occurs(haystack, needle, i) }

\* The buffer with old_1 at position x_1 and old_2 at position x_2, x_1 before
\* x_2, replaced by new_1 and new_2.
ReplacedBoth(buffer, x_1, old_1, new_1, x_2, old_2, new_2) ==
    SubSeq(buffer, 1, x_1) \o new_1
        \o SubSeq(buffer, x_1 + Len(old_1) + 1, x_2) \o new_2
        \o SubSeq(buffer, x_2 + Len(old_2) + 1, Len(buffer))

\* C25: when the payloads of the recipe are at two children of the root and
\* the payload_0 of each occurs exactly once in the symbolic encoding of the
\* root, the two occurrences not overlapping, evaluate returns the symbolic
\* encoding with each occurrence replaced by the payload of its node, whatever
\* the payloads are.
SiblingPayloadsSplicedInPlace ==
    \A p \in PayloadPaths : \A q \in PayloadPaths :
        LET buffer == Symbolic(term).val
            old_p == Node(p).payloads[1].payload_0
            old_q == Node(q).payloads[1].payload_0
            at_p == Occurrences(buffer, old_p)
            at_q == Occurrences(buffer, old_q)
        IN  ( /\ pc = "done"
              /\ result[1].ok
              /\ PayloadPaths = {p, q}
              /\ Len(p) = 1 /\ Len(q) = 1 /\ p # q
              /\ Cardinality(at_p) = 1
              /\ Cardinality(at_q) = 1
              /\ \E x_p \in at_p : \E x_q \in at_q : x_p + Len(old_p) <= x_q )
            => \E x_p \in at_p : \E x_q \in at_q :
                   result[1].val = ReplacedBoth(buffer,
                                       x_p, old_p, Node(p).payloads[1].payload,
                                       x_q, old_q, Node(q).payloads[1].payload)

\* C26: when every payload of the recipe is as add_payloads left it, payload
\* equal to payload_0, evaluate returns what evaluate_symbolic returns, whether
\* the payload_0 are found in the buffer or not; so it does for a recipe
\* without payloads.
UnmutatedPayloadsChangeNothing ==
    ( /\ pc = "done"
      /\ \A p \in PayloadPaths :
             Node(p).payloads[1].payload = Node(p).payloads[1].payload_0 )
        => result = Some(Symbolic(term))

\* C26 witness: an evaluation went through two unmutated payloads, one whose
\* payload_0 was found in the buffer and one whose payload_0 was not, and
\* returned the symbolic encoding.
UnmutatedFoundAndLost ==
    /\ pc = "done"
    /\ result[1].ok
    /\ Len(splices) = 2
    /\ \A n \in 1 .. 2 : splices[n].new_b = splices[n].old_b /\ splices[n].old_b # <<>>
    /\ \E n \in 1 .. 2 : IsSome(splices[n].found)
    /\ \E n \in 1 .. 2 : IsNone(splices[n].found)
    /\ result[1].val = Symbolic(term).val

(***************************************************************************)
(* Properties relating size and iteration                                  *)
(***************************************************************************)
\* C27: for every TermEval of the recipe, with or without payloads, the number
\* of nodes its iteration yields is its size: the iteration yields nothing
\* below a node that carries a payload.
IterationCountIsSize ==
    \A p \in Paths(term) :
        /\ Len(TermEval_into_iter(Node(p))) = TermEval_size(Node(p))
        /\ IsSome(Node(p).payloads) =>
               \A k \in DOMAIN TermEval_into_iter(Node(p)) :
                   TermEval_into_iter(Node(p))[k].at = <<>>

(***************************************************************************)
(* Properties of what the mutators report                                  *)
(***************************************************************************)
\* C28: whenever one of the five mutators returns Mutated, the trace differs
\* from the trace before the call.
MutatedMeansChanged ==
    mutation.result = "Mutated" => trace # before

(***************************************************************************)
(* Properties of runs of RemoveAndLift                                     *)
(***************************************************************************)
\* Trace::count_functions: the sum of the sizes of the recipes
count_functions(tr) ==
    LET sizes == [i \in DOMAIN tr.steps |->
                     IF tr.steps[i].action.tag = "Input"
                     THEN TermEval_size(tr.steps[i].action.recipe) ELSE 0]
    IN  Sum(sizes)

\* The trace is the trace before the call with one node replaced by its only
\* child, and is one smaller.
LiftedOneNode ==
    /\ count_functions(trace) = count_functions(before) - 1
    /\ \E site \in choose_term(before) :
           /\ Len(Subterms(term_at(before, site))) = 1
           /\ trace = write_term_at(before, site, Subterms(term_at(before, site))[1])

\* C29: on a well-typed trace every RemoveAndLift that returns Mutated makes
\* the total size of the recipes exactly one smaller and changes nothing else,
\* and a run that applies only RemoveAndLift returns Mutated finitely often and
\* from some call on returns Skipped, with the trace unchanged, forever.
RemoveAndLiftTerminates ==
    /\ []((Returned("RemoveAndLift", "Mutated") /\ WellTyped(before)) => LiftedOneNode)
    /\ [](mutation.result = "Skipped" => trace = before)
    /\ <>[](Returned("RemoveAndLift", "Skipped"))

\* C29 witness: the third call in a row returned Mutated on a trace of two
\* recipes, which is three nodes smaller than at the start.
LiftedThreeTimes ==
    /\ mutations = 3
    /\ Returned("RemoveAndLift", "Mutated")
    /\ WellTyped(before)
    /\ Len(trace.steps) = 2
    /\ LiftedOneNode
    /\ \E seed \in LiftTraces : count_functions(seed) = count_functions(trace) + 3

(***************************************************************************)
(* Properties of the search                                                *)
(***************************************************************************)
\* C30: search_sub_vec returns Some(i) for the smallest i at which the needle
\* occurs in the haystack and None when it occurs nowhere; None when the needle
\* is longer than the haystack; Some(0) when the needle is empty, also in an
\* empty haystack.
SearchSubVecContract ==
    IsSome(output) =>
        LET hits == Occurrences(input.haystack, input.needle) IN
        /\ hits = {} => output[1] = None
        /\ hits # {} =>
               \E i \in hits : (\A j \in hits : i <= j) /\ output[1] = Some(i)
        /\ Len(input.needle) > Len(input.haystack) => output[1] = None
        /\ input.needle = <<>> => output[1] = Some(0)

\* C30 witness: the needle occurs twice in the haystack, the first time not at
\* the start and the second time at the very end, and the search returned the
\* first.
SearchFoundFirstOfTwo ==
    /\ IsSome(output)
    /\ input.needle # <<>>
    /\ \E i \in 1 .. Len(input.haystack) :
           /\ output[1] = Some(i)
           /\ Occurs(input.haystack, input.needle,
                     Len(input.haystack) - Len(input.needle))
           /\ i < Len(input.haystack) - Len(input.needle)

====
